---- MODULE Spec2Model ----
(***************************************************************************)
(* Model of the KNN recommendation engine, models/knn/recommender.py:      *)
(* the KNNRecommender object (shows_df, feature_matrix, the scikit-learn   *)
(* NearestNeighbors index) and its four operations load_data, fit,         *)
(* get_similar_shows and get_recommendations.                              *)
(*                                                                         *)
(* Floating-point values (cosine distances, similarity scores, weighted    *)
(* sums, predicted ratings) are exact rationals <<numerator, denominator>> *)
(* in lowest terms; a zero denominator stands for the IEEE results of a    *)
(* division by zero (<<0,0>> is NaN, <<1,0>> and <<-1,0>> the infinities). *)
(* Values that are equal as rationals may differ in their last bits as     *)
(* doubles, and numpy fixes no order among equal keys: wherever the code   *)
(* sorts, every order of the keys that are equal as rationals is an        *)
(* outcome of the model.                                                   *)
(***************************************************************************)
EXTENDS Integers, Sequences, FiniteSets, TLC

VARIABLES
    shows_df,        \* self.shows_df: the loaded table, None before load_data
    feature_matrix,  \* self.feature_matrix: the standardized rows, None before load_data
    fit_X,           \* the samples self.model was fitted on, None before fit,
                     \* HalfFitted after a fit that raised on names alone
    op,              \* the operation of the last call
    req,             \* the arguments of the last call
    outcome,         \* what the last call returned or raised
    trace            \* get_recommendations: its locals similar_shows (one list per
                     \* rated id) and weighted_sims as the loop left them

vars == <<shows_df, feature_matrix, fit_X, op, req, outcome, trace>>

---------------------------------------------------------------------------
(* Bounds of the model *)

\* the largest requested count n of a similar-shows query
MaxCount == 6
\* the largest number of entries of a ratings mapping
MaxRated == 2

---------------------------------------------------------------------------
(* Exact arithmetic standing for the floats of the code *)

Abs(x) == IF x < 0 THEN -x ELSE x

Sign(x) == IF x < 0 THEN -1 ELSE IF x > 0 THEN 1 ELSE 0

RECURSIVE GCD(_, _)
GCD(a, b) == IF b = 0 THEN a ELSE GCD(b, a % b)

\* the rational n/d in lowest terms with a positive denominator
Rat(n, d) ==
    IF d = 0 THEN <<Sign(n), 0>>
    ELSE LET g == GCD(Abs(n), Abs(d))
         IN  <<Sign(d) * Sign(n) * (Abs(n) \div g), Abs(d) \div g>>

RInt(k) == <<k, 1>>
IsNaN(a) == a = <<0, 0>>
RAdd(a, b) ==
    IF a[2] = 0 \/ b[2] = 0
    THEN (IF a[2] = 0 /\ b[2] = 0 /\ a[1] = b[1] THEN a
          ELSE IF a[2] = 0 /\ b[2] = 0 THEN <<0, 0>>
          ELSE IF a[2] = 0 THEN a ELSE b)
    ELSE Rat(a[1] * b[2] + b[1] * a[2], a[2] * b[2])
RNeg(a) == <<-a[1], a[2]>>
RSub(a, b) == RAdd(a, RNeg(b))
RMul(a, b) ==
    IF a[2] = 0 \/ b[2] = 0
    THEN <<Sign(a[1]) * Sign(b[1]), 0>>
    ELSE Rat(a[1] * b[1], a[2] * b[2])
\* float division as numpy does it, no exception: NaN for a NaN operand, for
\* inf/inf and for 0/0; an infinity for inf/x and for x/0; 0 for x/inf
RDiv(a, b) ==
    IF IsNaN(a) \/ IsNaN(b) THEN <<0, 0>>
    ELSE IF a[2] = 0
    THEN (IF b[2] = 0 THEN <<0, 0>> ELSE <<a[1] * (IF b[1] < 0 THEN -1 ELSE 1), 0>>)
    ELSE IF b[2] = 0 THEN <<0, 1>>
    ELSE Rat(a[1] * b[2], a[2] * b[1])
\* a < b on floats: false when either side is NaN
RLess(a, b) ==
    IF IsNaN(a) \/ IsNaN(b) THEN FALSE
    ELSE IF a[2] = 0 THEN a[1] < 0 /\ b # a
    ELSE IF b[2] = 0 THEN b[1] > 0
    ELSE a[1] * b[2] < b[1] * a[2]
\* a <= b on floats: false when either side is NaN
RLeq(a, b) == ~IsNaN(a) /\ ~IsNaN(b) /\ (a = b \/ RLess(a, b))

\* the integer square root of a perfect square q
ISqrt(q) == CHOOSE r \in 0..q : r * r = q
IsSquare(q) == \E r \in 0..q : r * r = q

RECURSIVE SumSeq(_)
SumSeq(s) == IF s = <<>> THEN 0 ELSE Head(s) + SumSeq(Tail(s))

Dot(a, b) == SumSeq([c \in 1..Len(a) |-> a[c] * b[c]])

---------------------------------------------------------------------------
(* Python values *)

\* None: a value no table and no matrix equals (an empty DataFrame is <<>>)
NoneVal == <<"None">>
\* the index after a fit() that raised on an index never fitted, with
\* scikit-learn 1.0 or later: feature_names_in_ is stored before the data is
\* rejected, so the index passes check_is_fitted and holds no samples
HalfFitted == <<"feature_names_in_">>
EmptyRatings == [x \in {} |-> 0]

---------------------------------------------------------------------------
(* The processed table data/processed/combined_shows.csv *)

\* A row of the CSV file: the show's id, its feature cells (every column
\* other than id, title, summary, overview, source), the columns whose cell
\* is empty and the columns that hold text. title, genres and rating are
\* carried through to the output unchanged and are left out.
Show(id, cells, missing, text) ==
    [id |-> id, cells |-> cells, missing |-> missing, text |-> text]

\* rows of numbers: three 0/1 columns and a fourth column of zeros whose
\* cell is empty in the second row
Plain(ids, rows) ==
    [r \in 1..Len(ids) |->
        Show(ids[r], rows[r] \o <<0>>, IF r = 2 THEN {4} ELSE {}, {})]

\* four shows: fewer than the six neighbours the index is built to return
Table4 == Plain(<<1, 2, 3, 4>>,
                <<<<0, 0, 0>>, <<0, 1, 1>>, <<1, 0, 1>>, <<1, 1, 0>>>>)
\* six shows with pairwise different features
Table6 == Plain(<<3, 7, 8, 12, 15, 20>>,
                <<<<0, 0, 30>>, <<0, 0, 60>>, <<0, 1, 30>>,
                  <<1, 0, 60>>, <<1, 1, 30>>, <<1, 1, 60>>>>)
\* six shows, the first two with identical features
Table6Dup == Plain(<<11, 12, 13, 14, 15, 16>>,
                   <<<<1, 1, 0>>, <<1, 1, 0>>, <<0, 0, 0>>,
                     <<0, 0, 1>>, <<0, 1, 1>>, <<1, 0, 1>>>>)
\* eight shows with pairwise different features
Table8 == Plain(<<1, 2, 3, 4, 5, 6, 7, 8>>,
                <<<<0, 0, 0>>, <<0, 0, 1>>, <<0, 1, 0>>, <<0, 1, 1>>,
                  <<1, 0, 0>>, <<1, 0, 1>>, <<1, 1, 0>>, <<1, 1, 1>>>>)
\* two shows as preprocessing/data_processor.py writes them: the status
\* column holds text
TableText == <<Show(1, <<0, 1, 0, "Ended">>, {}, {4}),
               Show(2, <<1, 0, 1, "Running">>, {}, {4})>>
\* a CSV file with a header line and no rows
TableEmpty == <<>>
Tables == {Table4, Table6, Table6Dup, Table8, TableText, TableEmpty}

\* ids no table holds
AbsentIds == {99}

IdsOf(df) == {df[r].id : r \in 1..Len(df)}

---------------------------------------------------------------------------
(* load_data: fillna(0) and StandardScaler.fit_transform *)

FillNa(show) ==
    [c \in 1..Len(show.cells) |-> IF c \in show.missing THEN 0 ELSE show.cells[c]]

\* self.shows_df[feature_cols].fillna(0)
Filled(df) == [r \in 1..Len(df) |-> FillNa(df[r])]

Column(m, c) == [r \in 1..Len(m) |-> m[r][c]]

\* N * (x - mean) for each cell x of a column
Centered(col) == [r \in 1..Len(col) |-> Len(col) * col[r] - SumSeq(col)]

\* N^2 * variance of a column (the variance over all N rows, ddof = 0)
ScaledVar(col) ==
    Len(col) * SumSeq([r \in 1..Len(col) |-> col[r] * col[r]]) - SumSeq(col) * SumSeq(col)

\* StandardScaler on one column: (x - mean) / std, with std taken as 1 for a
\* constant column. Exact for the columns whose standardized cells are
\* integers (Standardizable below).
StandardizeColumn(col) ==
    IF ScaledVar(col) = 0 THEN [r \in 1..Len(col) |-> 0]
    ELSE [r \in 1..Len(col) |-> Centered(col)[r] \div ISqrt(ScaledVar(col))]

Standardizable(col) ==
    \/ ScaledVar(col) = 0
    \/ /\ IsSquare(ScaledVar(col))
       /\ \A r \in 1..Len(col) : Centered(col)[r] % ISqrt(ScaledVar(col)) = 0

\* StandardScaler.fit_transform raises ValueError for a frame without rows
\* and for a column of text
FitTransformRaises(df) == Len(df) = 0 \/ \E r \in 1..Len(df) : df[r].text # {}

FitTransform(m) ==
    LET cols == [c \in 1..Len(m[1]) |-> StandardizeColumn(Column(m, c))]
    IN  [r \in 1..Len(m) |-> [c \in 1..Len(m[1]) |-> cols[c][r]]]

FeatureMatrixOf(df) == FitTransform(Filled(df))

\* the tables of numbers
NumericTables == {t \in Tables : ~FitTransformRaises(t)}

\* the tables whose standardized cells are integers
StandardizableTable(df) ==
    \A c \in 1..Len(Filled(df)[1]) : Standardizable(Column(Filled(df), c))

\* the tables whose standardized features the model represents exactly, and
\* whose rows have an exact cosine with every row of every table of numbers
\* (an index fitted on one table may be queried with a row of another)
Representable(df) ==
    /\ StandardizableTable(df)
    /\ LET fm == FeatureMatrixOf(df)
       IN  \A t \in {u \in NumericTables : StandardizableTable(u)} :
              LET gm == FeatureMatrixOf(t)
              IN  \A a \in 1..Len(fm), b \in 1..Len(gm) :
                     IsSquare(Dot(fm[a], fm[a]) * Dot(gm[b], gm[b]))

---------------------------------------------------------------------------
(* The NearestNeighbors index: metric='cosine', n_neighbors = n_neighbors + 1 *)

\* KNNRecommender(): the default n_neighbors of the constructor
DefaultNeighbors == 5

\* the n_neighbors the index is constructed with
IndexNeighbors == DefaultNeighbors + 1

\* cosine similarity of two rows; a zero row has similarity 0 to every row
CosineSimilarity(a, b) ==
    IF Dot(a, a) = 0 \/ Dot(b, b) = 0 THEN RInt(0)
    ELSE Rat(Dot(a, b), ISqrt(Dot(a, a) * Dot(b, b)))

\* metric='cosine': 1 - cosine similarity, clipped to [0, 2]
CosineDistance(a, b) ==
    LET d == RSub(RInt(1), CosineSimilarity(a, b))
    IN  IF RLess(d, RInt(0)) THEN RInt(0)
        ELSE IF RLess(RInt(2), d) THEN RInt(2) ELSE d

\* sort order of floats: NaN after every number
KeyLess(x, y) == IF IsNaN(x) THEN FALSE ELSE IF IsNaN(y) THEN TRUE ELSE RLess(x, y)

\* the positions of left that no other position of left has to precede
Smallest(keys, left) == {a \in left : \A b \in left : ~KeyLess(keys[b], keys[a])}

\* the positions of left that no other position of left has to follow
Largest(keys, left) == {a \in left : \A b \in left : ~KeyLess(keys[a], keys[b])}

\* every ascending order of the positions of left
RECURSIVE SortsFrom(_, _)
SortsFrom(keys, left) ==
    IF left = {} THEN {<<>>}
    ELSE UNION {{<<m>> \o rest : rest \in SortsFrom(keys, left \ {m})} :
                   m \in Smallest(keys, left)}

\* what np.argsort / np.argpartition may give: the positions 1..Len(keys) in
\* ascending order of key, in every order of equal keys
ArgSorts(keys) == SortsFrom(keys, 1..Len(keys))

\* the Python slice s[:k]: the first k elements, and for a negative k all
\* but the last -k
Take(s, k) ==
    IF k >= Len(s) THEN s
    ELSE IF k >= 0 THEN SubSeq(s, 1, k)
    ELSE IF Len(s) + k <= 0 THEN <<>>
    ELSE SubSeq(s, 1, Len(s) + k)

\* self.model.kneighbors(x): the IndexNeighbors samples nearest to x, nearest
\* first, as rows of the fitted matrix with their distances; one result for
\* every order of the samples at equal distance. A half-fitted index passes
\* check_is_fitted and fails on n_samples_fit_ with AttributeError.
KNeighbors(x) ==
    IF fit_X = NoneVal
    THEN {[status |-> "NotFittedError", indices |-> <<>>, distances |-> <<>>]}
    ELSE IF fit_X = HalfFitted
    THEN {[status |-> "AttributeError", indices |-> <<>>, distances |-> <<>>]}
    ELSE IF IndexNeighbors > Len(fit_X)
    THEN {[status |-> "TooFewSamples", indices |-> <<>>, distances |-> <<>>]}
    ELSE LET dist == [r \in 1..Len(fit_X) |-> CosineDistance(x, fit_X[r])]
         IN  {LET ind == Take(order, IndexNeighbors)
              IN  [status |-> "ok", indices |-> ind,
                   distances |-> [k \in 1..Len(ind) |-> dist[ind[k]]]] :
                 order \in ArgSorts(dist)}

---------------------------------------------------------------------------
(* get_similar_shows *)

Failure(status) == [status |-> status, result |-> <<>>]
Success(result) == [status |-> "ok", result |-> result]

\* self.shows_df[self.shows_df['id'] == show_id].index: the matching rows, in order
ShowIdx(show_id) ==
    LET RECURSIVE Scan(_)
        Scan(r) == IF r > Len(shows_df) THEN <<>>
                   ELSE (IF shows_df[r].id = show_id THEN <<r>> ELSE <<>>) \o Scan(r + 1)
    IN  Scan(1)

\* feature_matrix is still the DataFrame of line 34: the load_data that
\* assigned shows_df raised in fit_transform. Indexing it with a row number
\* raises KeyError.
Unscaled == FitTransformRaises(shows_df)

\* 'similarity_score': 1 - distance
SimilarityScore(distance) == RSub(RInt(1), distance)

\* the loop over indices[0][1:]: the first neighbour is dropped, each other
\* one is looked up with shows_df.iloc
SimilarEntries(kn) ==
    [k \in 1..(Len(kn.indices) - 1) |->
        [id |-> shows_df[kn.indices[k + 1]].id,
         similarity_score |-> SimilarityScore(kn.distances[k + 1])]]

\* shows_df.iloc[idx] raises IndexError for a row the table does not have
IlocFails(kn) == \E k \in 2..Len(kn.indices) : kn.indices[k] > Len(shows_df)

\* get_similar_shows after the index has answered
SimilarFrom(kn, n_recommendations) ==
    IF kn.status # "ok" THEN Failure(kn.status)
    ELSE IF IlocFails(kn) THEN Failure("IndexError")
    ELSE Success(Take(SimilarEntries(kn), n_recommendations))

\* an unknown id answered with an empty list instead of the ValueError
GetSimilarShowsEmptyForUnknown(show_id, n_recommendations) ==
    IF shows_df = NoneVal THEN {Failure("NotReady")}
    ELSE IF Len(ShowIdx(show_id)) = 0 THEN {Success(<<>>)}
    ELSE IF Unscaled THEN {Failure("KeyError")}
    ELSE {SimilarFrom(kn, n_recommendations) :
             kn \in KNeighbors(feature_matrix[ShowIdx(show_id)[1]])}

\* every outcome of get_similar_shows(show_id, n_recommendations)
GetSimilarShows(show_id, n_recommendations) ==
    IF shows_df = NoneVal THEN {Failure("NotReady")}
    ELSE IF Len(ShowIdx(show_id)) = 0 THEN {Failure("NotFound")}
    ELSE IF Unscaled THEN {Failure("KeyError")}
    ELSE {SimilarFrom(kn, n_recommendations) :
             kn \in KNeighbors(feature_matrix[ShowIdx(show_id)[1]])}

\* the routes of web_app/backend/app.py: 200 with the list, 400 for a
\* ValueError (NotFittedError is one), 500 for any other exception
HttpStatus(o) ==
    IF o.status = "ok" THEN 200
    ELSE IF o.status \in {"NotReady", "NotFound", "NotFittedError", "TooFewSamples"} THEN 400
    ELSE 500

---------------------------------------------------------------------------
(* get_recommendations *)

\* normalized_rating = (rating - 1) / 4
NormalizedRating(rating) == Rat(rating - 1, 4)

\* an except clause that does not catch the "not found" ValueError
IsValueErrorButNotFound(status) ==
    status \in {"NotReady", "NotFittedError", "TooFewSamples"}

\* except ValueError: the failures of get_similar_shows that are ValueErrors
\* (sklearn's NotFittedError is a subclass of ValueError)
IsValueError(status) ==
    status \in {"NotReady", "NotFound", "NotFittedError", "TooFewSamples"}

\* the division guard written as weights_sum != 0
ShouldNormalizeNonZero(weights_sum) == weights_sum # RInt(0)

\* the division guard written as weights_sum >= 0
ShouldNormalizeNonNegative(weights_sum) == RLeq(RInt(0), weights_sum)

\* if weights_sum > 0
ShouldNormalize(weights_sum) == RLess(RInt(0), weights_sum)

\* the filter on rated shows left out
AlreadyRatedNever(id, user_ratings) == FALSE

\* show['id'] not in user_ratings
AlreadyRated(id, user_ratings) == id \in DOMAIN user_ratings

\* 'predicted_rating': weighted_sims[idx] * 5
PredictedRating(score) == RMul(score, RInt(5))

\* a list whose entries of equal similarity come in the order of the table
InTableOrder(o) ==
    \A k \in 1..(Len(o.result) - 1) :
        o.result[k].similarity_score = o.result[k + 1].similarity_score
            => ShowIdx(o.result[k].id)[1] < ShowIdx(o.result[k + 1].id)[1]

\* user_ratings.items(): the rated ids in the order of the request's mapping
RECURSIVE OrdersOf(_)
OrdersOf(ids) ==
    IF ids = {} THEN {<<>>}
    ELSE UNION {{<<id>> \o rest : rest \in OrdersOf(ids \ {id})} : id \in ids}

Items(user_ratings) == OrdersOf(DOMAIN user_ratings)

\* a lookup that raised an exception except ValueError does not catch
Raises(o) == o.status # "ok" /\ ~IsValueError(o.status)

\* what get_similar_shows(show_id, n_recommendations=len(shows_df)) can give
\* for each rated id. The loop adds up the entries of a list, so the order
\* of its entries of equal similarity changes nothing it computes: of the
\* lists with the same entries the one in table order is kept.
AnswersOf(user_ratings) ==
    [id \in DOMAIN user_ratings |->
        {o \in GetSimilarShows(id, Len(shows_df)) : InTableOrder(o)}]

\* the runs of the loop over items: a lookup for each id in turn; one that
\* raises past the except clause is the last
RECURSIVE LoopsOf(_, _)
LoopsOf(items, answers) ==
    IF items = <<>> THEN {<<>>}
    ELSE LET show_id == Head(items)
         IN  UNION {IF Raises(o) THEN {show_id :> o}
                    ELSE {(show_id :> o) @@ rest : rest \in LoopsOf(Tail(items), answers)} :
                    o \in answers[show_id]}

\* what the get_similar_shows calls of the loop give, one outcome for each
\* rated id the loop reaches
SimilarOfRated(user_ratings, items) ==
    LoopsOf(items, AnswersOf(user_ratings))

\* the inner loop for one rated show: acc = [sims, sum] after adding each
\* entry's similarity_score * normalized_rating at the entry's row and its
\* similarity_score to the running sum
RECURSIVE AddSimilar(_, _, _)
AddSimilar(acc, entries, normalized_rating) ==
    IF entries = <<>> THEN acc
    ELSE LET show == Head(entries)
             idx  == ShowIdx(show.id)[1]
         IN  AddSimilar(
                 [sims |-> [acc.sims EXCEPT ![idx] =
                               RAdd(@, RMul(show.similarity_score, normalized_rating))],
                  sum  |-> RAdd(acc.sum, show.similarity_score)],
                 Tail(entries), normalized_rating)

\* the outer loop over user_ratings.items(): a rated show whose lookup raised
\* a ValueError is passed over; any other exception ends the loop (and the
\* call) with the sums as they are
RECURSIVE Accumulate(_, _, _, _)
Accumulate(acc, items, user_ratings, similar) ==
    IF items = <<>> THEN acc
    ELSE LET show_id == Head(items)
         IN  IF similar[show_id].status = "ok"
             THEN Accumulate(AddSimilar(acc, similar[show_id].result,
                                        NormalizedRating(user_ratings[show_id])),
                             Tail(items), user_ratings, similar)
             ELSE IF IsValueError(similar[show_id].status)
             THEN Accumulate(acc, Tail(items), user_ratings, similar)
             ELSE acc

\* a lookup of the loop raised past the except clause
Propagates(similar) == \E id \in DOMAIN similar : Raises(similar[id])

\* weighted_sims as the call leaves it: after the loop and the division by
\* weights_sum, or, when a lookup raised past the except clause, as the
\* loop had it then (lines 118-119 are not reached)
WeightedSims(user_ratings, items, similar) ==
    LET acc == Accumulate([sims |-> [r \in 1..Len(shows_df) |-> RInt(0)], sum |-> RInt(0)],
                          items, user_ratings, similar)
    IN  IF ~Propagates(similar) /\ ShouldNormalize(acc.sum)
        THEN [r \in 1..Len(shows_df) |-> RDiv(acc.sims[r], acc.sum)]
        ELSE acc.sims

\* the loop over top_indices = np.argsort(weighted_sims)[::-1], for every
\* order argsort may give: the row visited next is any row not yet visited
\* that holds the highest score (left: the rows not yet visited). An unrated
\* show is appended, and the loop stops once the list holds
\* n_recommendations entries.
RECURSIVE Collect(_, _, _, _, _)
Collect(recommendations, left, weighted_sims, user_ratings, n_recommendations) ==
    IF left = {} THEN {recommendations}
    ELSE UNION {
        LET next == IF AlreadyRated(shows_df[idx].id, user_ratings)
                    THEN recommendations
                    ELSE Append(recommendations,
                                [id |-> shows_df[idx].id,
                                 predicted_rating |-> PredictedRating(weighted_sims[idx])])
        IN  IF Len(next) >= n_recommendations THEN {next}
            ELSE Collect(next, left \ {idx}, weighted_sims, user_ratings,
                         n_recommendations)
        : idx \in Largest(weighted_sims, left)}

\* the outcomes of get_recommendations given the loop's lookups and the
\* weighted_sims it left
Recommend(user_ratings, n_recommendations, similar, weighted_sims) ==
    IF Propagates(similar)
    THEN {Failure(similar[CHOOSE id \in DOMAIN similar : Raises(similar[id])].status)}
    ELSE {Success(list) :
             list \in Collect(<<>>, 1..Len(shows_df), weighted_sims,
                              user_ratings, n_recommendations)}

\* every outcome of get_recommendations(user_ratings, n_recommendations)
GetRecommendations(user_ratings, n_recommendations) ==
    IF shows_df = NoneVal THEN {Failure("NotReady")}
    ELSE UNION {UNION {Recommend(user_ratings, n_recommendations, similar,
                                 WeightedSims(user_ratings, items, similar)) :
                          similar \in SimilarOfRated(user_ratings, items)} :
                   items \in Items(user_ratings)}

---------------------------------------------------------------------------
(* The state machine *)

NoRequest == [show_id |-> 0, n |-> 0, ratings |-> EmptyRatings]
NoTrace == [similar |-> EmptyRatings, weighted_sims |-> <<>>]

\* the integer ratings of the scale 1-5 that requests carry
RatingValues == {2, 5}

\* the counts n of a similar-shows query: the route passes int(n) unchecked,
\* counts below 1 included
SimilarCounts == {-1, 0} \cup (1..MaxCount)

\* the counts n of a recommendation query
RecommendCounts == {-1, 0, 1, 2}

\* the ids a request may name: those of the loaded table and the absent ones
RequestIds == IF shows_df = NoneVal THEN {1} \cup AbsentIds
              ELSE IdsOf(shows_df) \cup AbsentIds

\* the rows of the loaded table whose shows a ratings mapping may rate
RatedRows == {1, 2}

\* the ids a ratings mapping may hold
RatedIds == IF shows_df = NoneVal THEN RequestIds
            ELSE {shows_df[r].id : r \in RatedRows \cap (1..Len(shows_df))} \cup AbsentIds

RatingMaps ==
    UNION {[ids -> RatingValues] :
              ids \in {s \in SUBSET RatedIds : Cardinality(s) <= MaxRated}}

\* KNNRecommender(): nothing loaded, nothing fitted, no call made
Init ==
    /\ shows_df = NoneVal
    /\ feature_matrix = NoneVal
    /\ fit_X = NoneVal
    /\ op = "idle"
    /\ req = NoRequest
    /\ outcome = Success(<<>>)
    /\ trace = NoTrace

\* load_data() on a CSV file of numbers, at startup (web_app/backend/app.py:16)
\* or again later: the index stays fitted on what it was fitted on
LoadData ==
    /\ op = "idle"
    /\ \E t \in {u \in NumericTables : Representable(u)} :
          /\ shows_df' = t
          /\ feature_matrix' = FeatureMatrixOf(t)
    /\ UNCHANGED <<fit_X, op, req, outcome, trace>>

\* load_data() on a CSV file fit_transform rejects: shows_df and
\* feature_matrix are assigned (lines 27 and 34) before line 35 raises
LoadDataRaises ==
    /\ op = "idle"
    /\ \E t \in {u \in Tables : FitTransformRaises(u)} :
          /\ shows_df' = t
          /\ feature_matrix' = Filled(t)
    /\ op' = "load"
    /\ outcome' = Failure("ValueError")
    /\ UNCHANGED <<fit_X, req, trace>>

\* load_data() without the CSV file: read_csv raises, nothing is assigned
LoadDataNoFile ==
    /\ op = "idle"
    /\ op' = "load"
    /\ outcome' = Failure("FileNotFoundError")
    /\ UNCHANGED <<shows_df, feature_matrix, fit_X, req, trace>>

\* fit() on loaded data
Fit ==
    /\ op = "idle"
    /\ feature_matrix # NoneVal
    /\ ~Unscaled
    /\ fit_X' = feature_matrix
    /\ UNCHANGED <<shows_df, feature_matrix, op, req, outcome, trace>>

\* fit() before load_data: raises ValueError("Data not loaded. ...")
FitUnloaded ==
    /\ op = "idle"
    /\ feature_matrix = NoneVal
    /\ op' = "fit"
    /\ outcome' = Failure("DataNotLoaded")
    /\ UNCHANGED <<shows_df, feature_matrix, fit_X, req, trace>>

\* fit() on the DataFrame a failed load_data left: the index rejects it as
\* fit_transform did. A fitted index stays fitted on its samples; an index
\* never fitted stays unfitted (scikit-learn before 1.0) or is left
\* half-fitted (1.0 and later): the repository pins no version.
FitRaises ==
    /\ op = "idle"
    /\ feature_matrix # NoneVal
    /\ Unscaled
    /\ fit_X' \in (IF fit_X = NoneVal THEN {NoneVal, HalfFitted} ELSE {fit_X})
    /\ op' = "fit"
    /\ outcome' = Failure("ValueError")
    /\ UNCHANGED <<shows_df, feature_matrix, req, trace>>

\* a call of get_similar_shows(show_id, n)
SimilarShows ==
    /\ op = "idle"
    /\ \E show_id \in RequestIds, n \in SimilarCounts :
          /\ req' = [show_id |-> show_id, n |-> n, ratings |-> EmptyRatings]
          /\ outcome' \in GetSimilarShows(show_id, n)
    /\ op' = "similar"
    /\ UNCHANGED <<shows_df, feature_matrix, fit_X, trace>>

\* a call of get_recommendations(user_ratings, n) on an engine without data
RecommendationsUnloaded ==
    /\ op = "idle"
    /\ shows_df = NoneVal
    /\ \E user_ratings \in RatingMaps, n \in RecommendCounts :
          /\ req' = [show_id |-> 0, n |-> n, ratings |-> user_ratings]
          /\ outcome' \in GetRecommendations(user_ratings, n)
    /\ op' = "recommend"
    /\ UNCHANGED <<shows_df, feature_matrix, fit_X, trace>>

\* a call of get_recommendations(user_ratings, n) on an engine with data;
\* trace keeps what the get_similar_shows calls the loop made gave, and
\* weighted_sims as the call left it
Recommendations ==
    /\ op = "idle"
    /\ shows_df # NoneVal
    /\ \E user_ratings \in RatingMaps :
      \E answers \in {AnswersOf(user_ratings)} :
       \E items \in Items(user_ratings) :
        \E similar \in LoopsOf(items, answers) :
         \E weighted_sims \in {WeightedSims(user_ratings, items, similar)} :
          \E n \in RecommendCounts :
            /\ req' = [show_id |-> 0, n |-> n, ratings |-> user_ratings]
            /\ outcome' \in Recommend(user_ratings, n, similar, weighted_sims)
            /\ trace' = [similar |-> similar, weighted_sims |-> weighted_sims]
    /\ op' = "recommend"
    /\ UNCHANGED <<shows_df, feature_matrix, fit_X>>

\* the caller takes the result or the exception; the engine is as before the call
Return ==
    /\ op # "idle"
    /\ op' = "idle"
    /\ req' = NoRequest
    /\ outcome' = Success(<<>>)
    /\ trace' = NoTrace
    /\ UNCHANGED <<shows_df, feature_matrix, fit_X>>

Next ==
    \/ LoadData
    \/ LoadDataRaises
    \/ LoadDataNoFile
    \/ Fit
    \/ FitUnloaded
    \/ FitRaises
    \/ SimilarShows
    \/ RecommendationsUnloaded
    \/ Recommendations
    \/ Return

Spec == Init /\ [][Next]_vars

---------------------------------------------------------------------------
(* Vocabulary of the properties *)

Loaded == shows_df # NoneVal
Fitted == fit_X # NoneVal /\ fit_X # HalfFitted
\* the index is fitted on the loaded table
Built == Loaded /\ fit_X = feature_matrix
Present(id) == Loaded /\ id \in IdsOf(shows_df)
EntryIds(result) == {result[k].id : k \in 1..Len(result)}

\* the cosine similarity of the shows with ids a and b of the loaded table
SimilarityOfIds(a, b) ==
    CosineSimilarity(feature_matrix[ShowIdx(a)[1]], feature_matrix[ShowIdx(b)[1]])

RECURSIVE RSumSeq(_)
RSumSeq(s) == IF s = <<>> THEN RInt(0) ELSE RAdd(Head(s), RSumSeq(Tail(s)))

\* the rated ids whose similarity list the last recommend call obtained
ListedRated == {j \in DOMAIN trace.similar : trace.similar[j].status = "ok"}

\* what rated show j contributed to the show with id i: over j's returned
\* neighbours equal to i, similarity * (rating_j - 1) / 4
ContributionOf(j, i) ==
    RSumSeq([k \in 1..Len(trace.similar[j].result) |->
                IF trace.similar[j].result[k].id = i
                THEN RMul(trace.similar[j].result[k].similarity_score, Rat(req.ratings[j] - 1, 4))
                ELSE RInt(0)])

RECURSIVE NumeratorOver(_, _)
NumeratorOver(rated, i) ==
    IF rated = {} THEN RInt(0)
    ELSE LET j == CHOOSE x \in rated : TRUE
         IN  RAdd(ContributionOf(j, i), NumeratorOver(rated \ {j}, i))

\* the numerator of item i's score
Numerator(i) == NumeratorOver(ListedRated, i)

RECURSIVE DenominatorOver(_)
DenominatorOver(rated) ==
    IF rated = {} THEN RInt(0)
    ELSE LET j == CHOOSE x \in rated : TRUE
         IN  RAdd(RSumSeq([k \in 1..Len(trace.similar[j].result) |->
                              trace.similar[j].result[k].similarity_score]),
                  DenominatorOver(rated \ {j}))

\* W: every similarity score accumulated over all rated shows and their neighbours
Denominator == DenominatorOver(ListedRated)

\* the score the claimed formula gives item i, W being the denominator
ScoreWith(W, i) ==
    IF W[1] > 0 /\ W[2] > 0 THEN RDiv(Numerator(i), W) ELSE Numerator(i)

ClaimedScore(i) == ScoreWith(Denominator, i)

---------------------------------------------------------------------------
(* C1 *)

\* C1: for a show id present in a fitted table of N shows and a count n >= 1
\* with N >= n + 1, similar(id, n) returns exactly the n nearest other shows
\* in descending order of similarity: the result has length n whatever
\* neighbour count the engine was constructed with.
C1_SimilarReturnsNNearest ==
    (/\ op = "similar" /\ Built /\ Present(req.show_id)
     /\ req.n >= 1 /\ Len(shows_df) >= req.n + 1)
        => /\ outcome.status = "ok"
           /\ Len(outcome.result) = req.n
           /\ req.show_id \notin EntryIds(outcome.result)
           /\ \A k \in 1..(Len(outcome.result) - 1) :
                 RLeq(outcome.result[k + 1].similarity_score,
                      outcome.result[k].similarity_score)
           /\ \A k \in 1..Len(outcome.result) :
                 \A other \in IdsOf(shows_df) \ (EntryIds(outcome.result) \cup {req.show_id}) :
                    RLeq(SimilarityOfIds(req.show_id, other),
                         outcome.result[k].similarity_score)

---------------------------------------------------------------------------
(* C2 *)

\* C2: in recommend(ratings, n) on a fitted engine, every rated show present
\* in the table contributes to every other show of the table: its similarity
\* list holds all N - 1 other shows, not a truncated set of nearest ones.
C2_ExhaustiveSimilarityList ==
    (op = "recommend" /\ Built)
        => \A j \in DOMAIN req.ratings :
              Present(j) => /\ trace.similar[j].status = "ok"
                            /\ EntryIds(trace.similar[j].result) = IdsOf(shows_df) \ {j}

---------------------------------------------------------------------------
(* C3 *)

\* C3: the score of every item of the table is the sum of
\* similarity * (rating - 1) / 4 over the rated shows found and their
\* returned neighbours equal to the item, divided by the one denominator W
\* (the sum of all accumulated similarity scores) exactly when W > 0 and left
\* undivided otherwise; every returned item has predicted rating 5 * score.
C3_ScoreFormula ==
    (op = "recommend" /\ Loaded /\ outcome.status = "ok")
        => \E W \in {Denominator} :
              /\ \A r \in 1..Len(shows_df) :
                    trace.weighted_sims[r] = ScoreWith(W, shows_df[r].id)
              /\ \A k \in 1..Len(outcome.result) :
                    outcome.result[k].predicted_rating
                        = RMul(ScoreWith(W, outcome.result[k].id), RInt(5))

\* two rated shows were found, W is positive and an item with a non-zero
\* score is returned
C3_Witness ==
    /\ op = "recommend" /\ Loaded /\ outcome.status = "ok"
    /\ req.n >= 1
    /\ Cardinality(ListedRated) = 2
    /\ Denominator[1] > 0
    /\ \E k \in 1..Len(outcome.result) :
          /\ Numerator(outcome.result[k].id)[1] # 0
          /\ outcome.result[k].predicted_rating # RMul(Numerator(outcome.result[k].id), RInt(5))

---------------------------------------------------------------------------
(* C4 *)

\* C4: the output of similar(id, n) for a present id never holds an entry
\* whose id is the queried id, also when another show has the same feature
\* vector as the queried one.
C4_SimilarExcludesSelf ==
    (op = "similar" /\ Built /\ outcome.status = "ok")
        => req.show_id \notin EntryIds(outcome.result)

---------------------------------------------------------------------------
(* C5 *)

\* C5: no item returned by recommend(ratings, n) has an id that is a key of
\* the ratings mapping.
C5_RatedNeverRecommended ==
    (op = "recommend" /\ outcome.status = "ok")
        => EntryIds(outcome.result) \cap DOMAIN req.ratings = {}

\* a rated show holds a score above that of every returned item, through its
\* similarity to another rated show
C5_Witness ==
    /\ op = "recommend" /\ Loaded /\ outcome.status = "ok"
    /\ req.n >= 1
    /\ outcome.result # <<>>
    /\ \E j \in DOMAIN req.ratings :
          /\ Present(j)
          /\ \E other \in ListedRated \ {j} : j \in EntryIds(trace.similar[other].result)
          /\ \A k \in 1..Len(outcome.result) :
                RLess(outcome.result[k].predicted_rating, RMul(ClaimedScore(j), RInt(5)))

---------------------------------------------------------------------------
(* C6 *)

\* C6: on a loaded engine, similar(id, n) with an id absent from the table
\* fails with NotFound for every n and returns nothing.
C6_AbsentIdNotFound ==
    (op = "similar" /\ Loaded /\ ~Present(req.show_id))
        => /\ outcome = Failure("NotFound")
           /\ HttpStatus(outcome) = 400

\* an absent id was queried on a fitted engine
C6_Witness ==
    /\ op = "similar" /\ Loaded /\ Fitted
    /\ req.n >= 1
    /\ ~Present(req.show_id)
    /\ outcome.status = "NotFound"
    /\ HttpStatus(outcome) = 400

---------------------------------------------------------------------------
(* C7 *)

\* the failures that say the engine is not built: the engine's own
\* "Model not fitted" error and the index's NotFittedError
NotReadyFailure(o) == o.status \in {"NotReady", "NotFittedError"} /\ o.result = <<>>

\* C7: while the build is incomplete (data not loaded, or loaded but not
\* fitted), similar and recommend fail with NotReady and return no list.
\* (A similar query for an id absent from a loaded table is the case of C6
\* and is left out here.)
C7_IncompleteBuildNotReady ==
    (/\ ~Loaded \/ ~Fitted
     /\ \/ op = "recommend"
        \/ op = "similar" /\ (Loaded => Present(req.show_id)))
        => NotReadyFailure(outcome)

---------------------------------------------------------------------------
(* C8 *)

\* C8: when the fitted table holds fewer than n + 1 shows, similar(id, n) for
\* a present id succeeds and returns all N - 1 other shows.
C8_SmallTableReturnsAvailable ==
    (op = "similar" /\ Built /\ Present(req.show_id) /\ Len(shows_df) < req.n + 1)
        => /\ outcome.status = "ok"
           /\ Len(outcome.result) = Len(shows_df) - 1

---------------------------------------------------------------------------
(* C9 *)

Without(user_ratings, id) == [x \in DOMAIN user_ratings \ {id} |-> user_ratings[x]]

\* C9: a rating for an id absent from the table changes nothing. Its lookup
\* is never a failure the call ends with, and what recommend(R plus {u: r}, n)
\* gives is what recommend(R, n) gives from the same answers of the index:
\* the same lookups of the other ids, the same scores, and a list or failure
\* that is an outcome of recommend(R, n); it does not fail where
\* recommend(R, n) succeeds.
C9_UnknownRatingSkipped ==
    (op = "recommend" /\ Loaded)
        => \A u \in DOMAIN req.ratings :
              ~Present(u) =>
                 LET rest    == Without(req.ratings, u)
                     similar == [id \in DOMAIN trace.similar \ {u} |-> trace.similar[id]]
                 IN  /\ u \in DOMAIN trace.similar => ~Raises(trace.similar[u])
                     /\ \E items \in Items(rest) :
                           /\ similar \in SimilarOfRated(rest, items)
                           /\ trace.weighted_sims = WeightedSims(rest, items, similar)
                           /\ outcome \in Recommend(rest, req.n, similar,
                                                   trace.weighted_sims)

\* a mapping with an absent id and a present one gave a list with a non-zero score
C9_Witness ==
    /\ op = "recommend" /\ Loaded /\ Fitted
    /\ req.n >= 1
    /\ \E u \in DOMAIN req.ratings : ~Present(u)
    /\ \E j \in DOMAIN req.ratings : Present(j)
    /\ outcome.status = "ok"
    /\ \E k \in 1..Len(outcome.result) : outcome.result[k].predicted_rating[1] # 0

---------------------------------------------------------------------------
(* C10 *)

\* C10: on a fitted engine, recommend with an empty ratings mapping raises
\* no error and every returned item has predicted rating exactly 0 (a
\* number, not NaN).
C10_EmptyRatingsAllZero ==
    (op = "recommend" /\ Loaded /\ Fitted /\ DOMAIN req.ratings = {})
        => /\ outcome.status = "ok"
           /\ \A k \in 1..Len(outcome.result) :
                 outcome.result[k].predicted_rating = RInt(0)

\* the empty mapping gave a full list of n > 1 items
C10_Witness ==
    /\ op = "recommend" /\ Loaded /\ Fitted /\ DOMAIN req.ratings = {}
    /\ outcome.status = "ok"
    /\ req.n > 1
    /\ Len(outcome.result) = req.n

---------------------------------------------------------------------------
(* C11 *)

\* C11: for a ratings mapping whose values all lie in [1, 5], every predicted
\* rating recommend returns lies in [0, 5], also when similarity scores are
\* negative and the shared denominator is small, zero or negative.
C11_PredictedRatingInRange ==
    (/\ op = "recommend" /\ Built /\ outcome.status = "ok"
     /\ \A j \in DOMAIN req.ratings : 1 <= req.ratings[j] /\ req.ratings[j] <= 5)
        => \A k \in 1..Len(outcome.result) :
              /\ RLeq(RInt(0), outcome.result[k].predicted_rating)
              /\ RLeq(outcome.result[k].predicted_rating, RInt(5))

====
